---- MODULE Spec2Model ----
(***************************************************************************)
(* Model of the projects list view (ProjectsList, src/unnamed/part_002),   *)
(* its controller (src/src/controllers/projectsController.ts) and the mock *)
(* API it talks to (src/src/mocks/handlers.ts).                            *)
(*                                                                         *)
(* Text (titles, file names, paths, urls, form input) is a sequence of     *)
(* one-character strings.  A nullable value is NULL (the empty sequence)   *)
(* or Some(v) (the one-element sequence holding v).                        *)
(***************************************************************************)
EXTENDS Integers, Sequences, FiniteSets, TLC

\* ------------------------------------------------------------------ bounds

\* Async flows (mount load, refresh, delete, submit) in flight at once.
MaxTasks == 2

\* Records the server holds at once (a create is refused beyond it).
MaxServer == 2

\* Records of the longest list that is paged.
MaxListed == 12

\* Flows the user starts in one run (refreshes, deletes, submitted requests).
MaxOps == 2

\* ------------------------------------------------------------------ values

NULL == <<>>

Some(v) == <<v>>

Val(o) == o[1]

\* The array holding the elements of f, each computed once.
ArrayOf(f) == SubSeq(f, 1, Len(f))

Range(s) == {s[i] : i \in 1..Len(s)}

\* Error messages: `HTTP ${res.status}`, the message of fetch's TypeError, and
\* the fixed strings of the source.
Http500 == "HTTP 500"

Http404 == "HTTP 404"

NotFoundMsg == "not found"

FailedToFetch == "Failed to fetch"

InvalidDetailSchema == "Invalid detail schema"

FillRequiredMsg == "Please fill in all required fields."

InvalidUrlMsg == "Please enter a valid partner URL (e.g., https://example.com)"

Whitespace == {" ", "\n", "\r", "\t"}

\* ------------------------------------------------------------------ text

RECURSIVE TrimStart(_)
TrimStart(t) ==
    IF t # <<>> /\ Head(t) \in Whitespace THEN TrimStart(Tail(t)) ELSE t

RECURSIVE TrimEnd(_)
TrimEnd(t) ==
    IF t # <<>> /\ t[Len(t)] \in Whitespace
    THEN TrimEnd(SubSeq(t, 1, Len(t) - 1))
    ELSE t

\* String.prototype.trim
Trim(t) == TrimEnd(TrimStart(t))

\* formContent.replace(/\r\n/g, "\n")
RECURSIVE NormalizeNewlines(_)
NormalizeNewlines(t) ==
    IF t = <<>> THEN <<>>
    ELSE IF Len(t) >= 2 /\ t[1] = "\r" /\ t[2] = "\n"
         THEN <<"\n">> \o NormalizeNewlines(SubSeq(t, 3, Len(t)))
         ELSE <<Head(t)>> \o NormalizeNewlines(Tail(t))

RECURSIVE SkipNewlines(_)
SkipNewlines(t) ==
    IF t # <<>> /\ Head(t) = "\n" THEN SkipNewlines(Tail(t)) ELSE t

\* normalized.split(/\n{2,}/): acc is the piece read so far.
RECURSIVE SplitBlankLines(_, _)
SplitBlankLines(t, acc) ==
    IF t = <<>> THEN <<acc>>
    ELSE IF Len(t) >= 2 /\ t[1] = "\n" /\ t[2] = "\n"
         THEN <<acc>> \o SplitBlankLines(SkipNewlines(t), <<>>)
         ELSE SplitBlankLines(Tail(t), Append(acc, Head(t)))

\* ContentArray keeping the pieces as split, untrimmed.
ContentArray_Untrimmed(normalized) ==
    SelectSeq(SplitBlankLines(normalized, <<>>), LAMBDA p : Len(p) > 0)

\* .map((p) => p.trim()).filter((p) => p.length > 0)
ContentArray(normalized) ==
    LET pieces  == SplitBlankLines(normalized, <<>>)
        trimmed == [i \in 1..Len(pieces) |-> Trim(pieces[i])]
    IN  SelectSeq(trimmed, LAMBDA p : Len(p) > 0)

\* contentArray.length ? contentArray : [normalized.trim()]
PayloadContent(formContent) ==
    LET normalized == NormalizeNewlines(formContent)
        arr        == ContentArray(normalized)
    IN  IF Len(arr) > 0 THEN arr ELSE <<Trim(normalized)>>

\* paragraphs.join("\n\n")
RECURSIVE JoinParagraphs(_)
JoinParagraphs(ps) ==
    IF ps = <<>> THEN <<>>
    ELSE IF Len(ps) = 1 THEN ps[1]
    ELSE ps[1] \o <<"\n", "\n">> \o JoinParagraphs(Tail(ps))

RECURSIVE StripTrailingSlashes(_)
StripTrailingSlashes(p) ==
    IF p # <<>> /\ p[Len(p)] = "/"
    THEN StripTrailingSlashes(SubSeq(p, 1, Len(p) - 1))
    ELSE p

LastIndexOfSlash(p) ==
    LET at == {i \in 1..Len(p) : p[i] = "/"}
    IN  IF at = {} THEN 0 ELSE CHOOSE i \in at : \A j \in at : j <= i

\* lastPathSegment; decodeURIComponent leaves a segment without "%" as it is
\* (the paths of the model hold no "%").
lastPathSegment(path) ==
    LET trimmed == StripTrailingSlashes(path)
        idx     == LastIndexOfSlash(trimmed)
    IN  IF idx >= 1 THEN SubSeq(trimmed, idx + 1, Len(trimmed)) ELSE trimmed

\* toLowerCase, on the letters of the model
LowerCase(c) ==
    CASE c = "A" -> "a"
      [] c = "B" -> "b"
      [] OTHER   -> c

SlugChars == {"a", "b", "x", "y", "n", "1", "2"}

\* .replace(/[^a-z0-9]+/g, "-"): prev tells whether a "-" was just written
RECURSIVE DashRuns(_, _)
DashRuns(t, prev) ==
    IF t = <<>> THEN <<>>
    ELSE IF Head(t) \in SlugChars THEN <<Head(t)>> \o DashRuns(Tail(t), FALSE)
    ELSE IF prev THEN DashRuns(Tail(t), TRUE)
    ELSE <<"-">> \o DashRuns(Tail(t), TRUE)

\* .replace(/(^-|-$)+/g, "")
StripDashes(t) ==
    LET a == IF t # <<>> /\ Head(t) = "-" THEN Tail(t) ELSE t
    IN  IF a # <<>> /\ a[Len(a)] = "-" THEN SubSeq(a, 1, Len(a) - 1) ELSE a

slugify(input) ==
    StripDashes(DashRuns([i \in 1..Len(input) |-> LowerCase(input[i])], FALSE))

\* the ".json" of a file name
Ext == <<".", "j">>

\* `${slugify(title) || "untitled"}.json`
FilenameOfTitle(title) ==
    (IF slugify(title) = <<>> THEN <<"u">> ELSE slugify(title)) \o Ext

\* ------------------------------------------------------------------ JSON

\* A JSON value is a record with a type; a field that is absent has type
\* "undefined".
JStr(t) == [type |-> "string", val |-> t]

JUndefined == [type |-> "undefined", val |-> <<>>]

JArray(s) == [type |-> "array", val |-> s]

\* ------------------------------------------------------------------ server

\* The mock's initial `projects` array: two records.
FileA == <<"a">> \o Ext

FileB == <<"b">> \o Ext

PathnameOf(filename) == <<"/", "p", "/">> \o filename

\* projectDetailUrl
projectDetailUrl(filename) == <<"/", "d", "/">> \o filename

DetailA ==
    [title |-> <<"A">>, content |-> JStr(<<"x">>), date |-> <<"2">>,
     partner |-> [name |-> <<"n">>, url |-> <<"h", ":", "u">>]]

DetailB ==
    [title |-> <<"B">>, content |-> JStr(<<"y">>), date |-> <<"1">>,
     partner |-> [name |-> <<"n">>, url |-> <<"h", ":", "u">>]]

InitialProjects ==
    << [filename |-> FileA, pathname |-> PathnameOf(FileA), detail |-> DetailA],
       [filename |-> FileB, pathname |-> PathnameOf(FileB), detail |-> DetailB] >>

\* projects.findIndex((p) => p.filename === filename), 0 for -1
FindIndex(projs, filename) ==
    LET at == {i \in 1..Len(projs) : projs[i].filename = filename}
    IN  IF at = {} THEN 0 ELSE CHOOSE i \in at : \A j \in at : i <= j

\* GET list: the body the handler answers with
ListBody(projs) ==
    JArray(ArrayOf([i \in 1..Len(projs) |->
                      [type |-> "object",
                       url |-> JStr(projectDetailUrl(projs[i].filename)),
                       pathname |-> JStr(projs[i].pathname)]]))

\* GET detail: HttpResponse.json(item.detail)
DetailBody(d) ==
    [type |-> "object",
     title |-> JStr(d.title), content |-> d.content, date |-> JStr(d.date),
     partner |-> [type |-> "object", name |-> JStr(d.partner.name),
                  url |-> JStr(d.partner.url)]]

\* projects.splice(idx, 1)
Splice(projs, idx) == SubSeq(projs, 1, idx - 1) \o SubSeq(projs, idx + 1, Len(projs))

\* POST upload: the record the handler unshifts
CreatedRecord(payload) ==
    LET filename == FilenameOfTitle(payload.title)
    IN  [filename |-> filename, pathname |-> PathnameOf(filename),
         detail |-> [title |-> payload.title,
                     content |-> JStr(JoinParagraphs(payload.content)),
                     date |-> payload.date, partner |-> payload.partner]]

\* PUT :filename: the detail the handler stores
UpdatedDetail(payload) ==
    [title |-> payload.title, content |-> JStr(JoinParagraphs(payload.content)),
     date |-> payload.date, partner |-> payload.partner]

\* ------------------------------------------------------------------ controller

\* listRaw reading the bare array and data, and not items.
listRaw_DataOnly(json) ==
    IF json.type = "array" THEN json.val
    ELSE IF json.type = "object"
         THEN IF json.data.type = "array" THEN json.data.val ELSE <<>>
         ELSE <<>>

\* fetchProjects: the raw list of the index body
listRaw(json) ==
    IF json.type = "array" THEN json.val
    ELSE IF json.type = "object"
         THEN IF json.data.type = "array" THEN json.data.val
              ELSE IF json.items.type = "array" THEN json.items.val
              ELSE <<>>
         ELSE <<>>

\* toListItem testing the url alone.
toListItem_UrlOnly(u) ==
    IF u.type # "object" THEN NULL
    ELSE LET url      == IF u.url.type = "string" THEN u.url.val ELSE <<>>
             pathname == IF u.pathname.type = "string" THEN u.pathname.val ELSE <<>>
         IN  IF url = <<>> THEN NULL
             ELSE Some([url |-> url, pathname |-> pathname])

\* toListItem: NULL or Some([url, pathname])
toListItem(u) ==
    IF u.type # "object" THEN NULL
    ELSE LET url      == IF u.url.type = "string" THEN u.url.val ELSE <<>>
             pathname == IF u.pathname.type = "string" THEN u.pathname.val ELSE <<>>
         IN  IF url = <<>> \/ pathname = <<>> THEN NULL
             ELSE Some([url |-> url, pathname |-> pathname])

\* listRaw.map(toListItem).filter((x) => x !== null)
BaseOf(json) ==
    LET raw    == listRaw(json)
        mapped == ArrayOf([i \in 1..Len(raw) |-> toListItem(raw[i])])
        kept   == SelectSeq(mapped, LAMBDA x : x # NULL)
    IN  ArrayOf([i \in 1..Len(kept) |-> Val(kept[i])])

\* toDetail taking a record without a usable title as one titled "".
toDetail_TitleOptional(u) ==
    IF u.type # "object" THEN NULL
    ELSE Some([title   |-> IF u.title.type = "string" THEN u.title.val ELSE <<>>,
               content |-> IF u.content.type = "string" THEN u.content.val ELSE <<>>,
               date    |-> IF u.date.type = "string" THEN u.date.val ELSE <<>>,
               partner |->
                   IF u.partner.type = "object"
                   THEN [name |-> IF u.partner.name.type = "string"
                                  THEN u.partner.name.val ELSE <<>>,
                         url  |-> IF u.partner.url.type = "string"
                                  THEN u.partner.url.val ELSE <<>>]
                   ELSE [name |-> <<>>, url |-> <<>>]])

\* toDetail: NULL or Some(detail)
toDetail(u) ==
    IF u.type # "object" THEN NULL
    ELSE LET title   == IF u.title.type = "string" THEN u.title.val ELSE <<>>
             content == IF u.content.type = "string" THEN u.content.val ELSE <<>>
             date    == IF u.date.type = "string" THEN u.date.val ELSE <<>>
             partner ==
                 IF u.partner.type = "object"
                 THEN [name |-> IF u.partner.name.type = "string"
                                THEN u.partner.name.val ELSE <<>>,
                       url  |-> IF u.partner.url.type = "string"
                                THEN u.partner.url.val ELSE <<>>]
                 ELSE [name |-> <<>>, url |-> <<>>]
         IN  IF title = <<>> THEN NULL
             ELSE Some([title |-> title, content |-> content, date |-> date,
                        partner |-> partner])

NoBody == [type |-> "other"]

\* What one detail request can end with, the signal not aborted: the response
\* of the server (200 with the record's detail, 404 without the record), or a
\* transport error, or a 200 whose body is no record.
DetailResponses(projs, url) ==
    LET idx == FindIndex(projs, lastPathSegment(url))
    IN  (IF idx = 0 THEN {[kind |-> "status", msg |-> Http404, body |-> NoBody]}
         ELSE {[kind |-> "ok", msg |-> "", body |-> DetailBody(projs[idx].detail)]})
        \cup {[kind |-> "throw", msg |-> FailedToFetch, body |-> NoBody],
              [kind |-> "ok", msg |-> "", body |-> NoBody]}

\* The signal aborted: fetch rejects with the AbortError.
AbortedResponse == [kind |-> "abort", msg |-> "", body |-> NoBody]

\* EnrichedOf without the isAbortError test of its catch.
EnrichedOf_AbortAsError(b, resp) ==
    IF resp.kind = "ok"
    THEN LET detail == toDetail(resp.body)
         IN  IF detail = NULL
             THEN [url |-> b.url, pathname |-> b.pathname, detail |-> NULL,
                   error |-> Some(InvalidDetailSchema)]
             ELSE [url |-> b.url, pathname |-> b.pathname, detail |-> detail,
                   error |-> NULL]
    ELSE [url |-> b.url, pathname |-> b.pathname, detail |-> NULL,
          error |-> Some(IF resp.kind = "abort" THEN "The operation was aborted."
                         ELSE resp.msg)]

\* The callback of base.map in fetchProjects: the EnrichedItem of one entry
EnrichedOf(b, resp) ==
    IF resp.kind = "ok"
    THEN LET detail == toDetail(resp.body)
         IN  IF detail = NULL
             THEN [url |-> b.url, pathname |-> b.pathname, detail |-> NULL,
                   error |-> Some(InvalidDetailSchema)]
             ELSE [url |-> b.url, pathname |-> b.pathname, detail |-> detail,
                   error |-> NULL]
    ELSE IF resp.kind = "abort"
    THEN [url |-> b.url, pathname |-> b.pathname, detail |-> NULL, error |-> NULL]
    ELSE [url |-> b.url, pathname |-> b.pathname, detail |-> NULL,
          error |-> Some(resp.msg)]

\* ------------------------------------------------------------------ state

VARIABLES
    projects,     \* server: the mock's `projects` array
    mounted,      \* the view is mounted (its state exists)
    items,        \* useState<EnrichedItem[] | null>
    error,        \* useState<string | null>, the list-level error
    deleting,     \* useState<Set<string>>, the Deletion set
    confirmPath,  \* useState<string | null>, the confirmation prompt
    addOpen,      \* the add/edit form is open
    editId,       \* useState<string | null>, the edit target
    creating,     \* the submitting flag
    formError,    \* useState<string | null>
    form,         \* formTitle, formContent, formDate, formPartnerName, formPartnerUrl
    page,         \* useState(1), the page shown
    searchQuery,  \* useState(""), the search text
    filteredSorted, \* useMemo over [list, searchQuery]: the projection shown
    tasks,        \* the async flows in flight, a load phase started later is further right
    lastLoad,     \* history: how the most recently started load ended
    ops           \* history: the flows the user has started

collVars == <<items, error>>

delVars == <<deleting, confirmPath>>

formVars == <<addOpen, editId, creating, formError, form>>

viewVars == <<page, searchQuery, filteredSorted>>

vars ==
    <<projects, mounted, items, error, deleting, confirmPath, addOpen, editId,
      creating, formError, form, page, searchQuery, filteredSorted, tasks, lastLoad,
      ops>>

EmptyForm ==
    [title |-> <<>>, content |-> <<>>, date |-> <<>>, partnerName |-> <<>>,
     partnerUrl |-> <<>>]

FilledForm ==
    [title |-> <<"B">>, content |-> <<"y", "\n", "\n", "z">>, date |-> <<"1">>,
     partnerName |-> <<"n">>, partnerUrl |-> <<"u">>]

\* What the user types into the form.
FormInputs ==
    {FilledForm,
     [FilledForm EXCEPT !.title = <<>>],
     [FilledForm EXCEPT !.partnerUrl = <<" ">>]}

NoPayload ==
    [title |-> <<>>, content |-> <<>>, date |-> <<>>,
     partner |-> [name |-> <<>>, url |-> <<>>]]

NoRequest == [op |-> "none", filename |-> <<>>, payload |-> NoPayload]

\* One async flow: the mount effect's load, refresh, handleDelete or onSubmit.
\* pc is the await it is suspended at: "mutate" (the delete, create or update
\* request), "index" (the list request of fetchProjects) or "details" (its
\* Promise.all).  json is the body the list request was answered with, base
\* the entries kept of it.  res[k] is NULL while the k-th detail request is pending, and
\* then Some(what the request ended with).
Task(kind, pc, path, req) ==
    [kind |-> kind, pc |-> pc, aborted |-> FALSE, path |-> path, req |-> req,
     json |-> NoBody, base |-> <<>>, res |-> <<>>]

Remove(seq, i) == SubSeq(seq, 1, i - 1) \o SubSeq(seq, i + 1, Len(seq))

InLoad(t) == t.pc \in {"index", "details"}

\* A later load was started while this one was in flight.
Superseded(i) == \E j \in (i + 1)..Len(tasks) : InLoad(tasks[j])

\* A state update of a view that was torn down is dropped.
St(old, new) == IF mounted THEN new ELSE old

\* The branch of the render function.
View ==
    IF items = NULL THEN "loading"
    ELSE IF error # NULL THEN "error"
    ELSE IF Len(Val(items)) # 0 THEN "list"
    ELSE "empty"

\* ------------------------------------------------------------------ projection

PAGE_SIZE == 5

Max(a, b) == IF a >= b THEN a ELSE b

Min(a, b) == IF a <= b THEN a ELSE b

\* const list = useMemo(() => items ?? [], [items])
list == IF items = NULL THEN <<>> ELSE Val(items)

DigitOf(c) ==
    CASE c = "0" -> 0
      [] c = "1" -> 1
      [] c = "2" -> 2
      [] c = "3" -> 3

\* Date.parse.  A date of the model is a day count in one decimal digit,
\* with a leading "-" for a day before 1970-01-01 (Date.parse of such a date
\* is negative); it stands for the ISO date the source holds.  Any other text
\* does not parse: NaN, here NULL.
DateParse(d) ==
    IF Len(d) = 1 /\ d[1] \in {"0", "1", "2", "3"} THEN Some(DigitOf(d[1]))
    ELSE IF Len(d) = 2 /\ d[1] = "-" /\ d[2] \in {"1", "2", "3"}
         THEN Some(0 - DigitOf(d[2]))
         ELSE NULL

\* byDate of filteredSorted; d is NULL for the undefined of b.detail?.date
byDate(d) ==
    IF d = NULL \/ Val(d) = <<>> THEN 0
    ELSE LET t == DateParse(Val(d))
         IN  IF t = NULL THEN 0 ELSE Val(t)

\* byDate(it.detail?.date)
DateKey(it) == byDate(IF it.detail = NULL THEN NULL ELSE Some(Val(it.detail).date))


\* The place a stable sort by the comparator byDate(b) - byDate(a) gives the
\* i-th of the items with the date values keys: behind every item the
\* comparator puts first and behind the earlier items it compares equal to.
SortRank(keys, i) ==
    Cardinality({j \in 1..Len(keys) :
                   \/ keys[i] - keys[j] < 0
                   \/ keys[i] - keys[j] = 0 /\ j < i}) + 1

\* The items of s, the i-th at the place ranks[i].
Placed(s, ranks) ==
    ArrayOf([r \in 1..Len(s) |-> s[CHOOSE i \in 1..Len(s) : ranks[i] = r]])

\* The places of the items with the date values keys
RanksOf(keys) == ArrayOf([i \in 1..Len(keys) |-> SortRank(keys, i)])

\* [...list].sort((a, b) => byDate(b.detail?.date) - byDate(a.detail?.date));
\* Array.prototype.sort is stable.
SortByDate(s) == Placed(s, RanksOf(ArrayOf([i \in 1..Len(s) |-> DateKey(s[i])])))

\* String.prototype.toLowerCase
ToLowerCase(t) == [i \in 1..Len(t) |-> LowerCase(t[i])]

\* String.prototype.includes: the needle is looked for at each position in turn
RECURSIVE Includes(_, _)
Includes(hay, needle) ==
    IF Len(needle) > Len(hay) THEN FALSE
    ELSE IF SubSeq(hay, 1, Len(needle)) = needle THEN TRUE
    ELSE Includes(Tail(hay), needle)

\* TitleMatches looking for the text in the title as it is written.
TitleMatches_CaseSensitive(it, q) ==
    /\ it.detail # NULL
    /\ Val(it.detail).title # <<>>
    /\ Includes(Val(it.detail).title, q)

\* The filter of filteredSorted
TitleMatches(it, q) ==
    /\ it.detail # NULL
    /\ Val(it.detail).title # <<>>
    /\ Includes(ToLowerCase(Val(it.detail).title), q)

\* The callback of the filteredSorted memo over the list its and the search
\* text query
filteredSortedOf(its, query) ==
    LET q    == ToLowerCase(Trim(query))
        base == SortByDate(its)
    IN  IF q = <<>> THEN base ELSE SelectSeq(base, LAMBDA it : TitleMatches(it, q))

\* Math.max(1, Math.ceil(n / PAGE_SIZE))
totalPagesOf(n) == Max(1, (n + PAGE_SIZE - 1) \div PAGE_SIZE)

totalPages == totalPagesOf(Len(filteredSorted))

start == (page - 1) * PAGE_SIZE

\* filteredSorted.slice(start, start + PAGE_SIZE)
paged == SubSeq(filteredSorted, start + 1, Min(start + PAGE_SIZE, Len(filteredSorted)))

\* clampPage holding the page at 1 or above only.
clampPage_LowerOnly(p, n) == IF n = 0 THEN 1 ELSE Max(1, p)

\* The effect that resets or clamps the page, applied to the page p
clampPage(p, n) == IF n = 0 THEN 1 ELSE Min(Max(1, p), totalPagesOf(n))

\* The page after a handler left it at p: the clamp effect runs when
\* filteredSorted was recomputed, that is when items or searchQuery changed.
pageAfter(p) ==
    IF mounted' /\ (items' # items \/ searchQuery' # searchQuery)
    THEN clampPage(p, Len(filteredSorted'))
    ELSE p

\* The render after a handler: the memo is recomputed when items or
\* searchQuery changed.
memoKept ==
    IF mounted' /\ (items' # items \/ searchQuery' # searchQuery)
    THEN \E its \in {list'}, query \in {searchQuery'} :
            filteredSorted' = filteredSortedOf(its, query)
    ELSE filteredSorted' = filteredSorted

\* A handler that sets neither the search text nor the page
viewKept ==
    /\ searchQuery' = searchQuery
    /\ memoKept
    /\ page' = pageAfter(page)

\* The first effect run and, under StrictMode in development, the second one
\* after the first one's cleanup aborted its controller.
\* The component just mounted over a server holding projs.
InitWith(projs) ==
    /\ projects = projs
    /\ mounted = TRUE
    /\ items = NULL
    /\ error = NULL
    /\ deleting = {}
    /\ confirmPath = NULL
    /\ addOpen = FALSE
    /\ editId = NULL
    /\ creating = FALSE
    /\ formError = NULL
    /\ form = EmptyForm
    /\ page = 1
    /\ searchQuery = <<>>
    /\ filteredSorted = <<>>
    /\ tasks \in
         { <<Task("load", "index", <<>>, NoRequest)>>,
           <<[Task("load", "index", <<>>, NoRequest) EXCEPT !.aborted = TRUE],
             Task("load", "index", <<>>, NoRequest)>> }
    /\ lastLoad = "pending"
    /\ ops = 0

Init == InitWith(InitialProjects)

\* ------------------------------------------------------------------ flows

\* What fetchProjects ended with: r.kind is "ok" (r.items), "throw" (r.msg)
\* or "abort" (the AbortError).
Returned(enriched) == [kind |-> "ok", items |-> enriched, msg |-> ""]

Threw(msg) == [kind |-> "throw", items |-> <<>>, msg |-> msg]

AbortMsg == "The operation was aborted."

Aborted == [kind |-> "abort", items |-> <<>>, msg |-> AbortMsg]

\* resetAddForm
\* resetAddForm without its setEditId(null).
resetAddForm_KeepsEditId ==
    /\ form' = St(form, EmptyForm)
    /\ formError' = St(formError, NULL)
    /\ editId' = editId

resetAddForm ==
    /\ form' = St(form, EmptyForm)
    /\ formError' = St(formError, NULL)
    /\ editId' = St(editId, NULL)

\* loadSettled without the isAbortError test of its catch.
loadSettled_NoAbortCheck(t, r) ==
    /\ items' = IF r.kind = "ok" THEN St(items, Some(r.items)) ELSE items
    /\ error' = IF r.kind # "ok" THEN St(error, Some(r.msg)) ELSE error
    /\ UNCHANGED <<delVars, formVars>>

\* load of the mount effect, after its await
loadSettled(t, r) ==
    /\ items' = IF r.kind = "ok" THEN St(items, Some(r.items)) ELSE items
    /\ error' = IF r.kind = "throw" THEN St(error, Some(r.msg)) ELSE error
    /\ UNCHANGED <<delVars, formVars>>

\* refresh, after its await
refreshSettled(t, r) ==
    /\ items' = IF r.kind = "ok" THEN St(items, Some(r.items)) ELSE items
    /\ error' = IF r.kind # "ok" THEN St(error, Some(r.msg)) ELSE error
    /\ UNCHANGED <<delVars, formVars>>

\* deleteFinally storing a fresh empty set instead of removing one pathname.
deleteFinally_ClearsSet(t) ==
    /\ deleting' = St(deleting, {})
    /\ confirmPath' = St(confirmPath, NULL)

\* handleDelete: the finally block
deleteFinally(t) ==
    /\ deleting' = St(deleting, deleting \ {t.path})
    /\ confirmPath' = St(confirmPath, NULL)

\* handleDelete, after the await of fetchProjects
handleDeleteSettled(t, r) ==
    /\ items' = IF r.kind = "ok" THEN St(items, Some(r.items)) ELSE items
    /\ error' = IF r.kind # "ok" THEN St(error, Some(r.msg)) ELSE error
    /\ deleteFinally(t)
    /\ UNCHANGED formVars

\* onSubmitSettled closing the form with its fields left as they are.
onSubmitSettled_KeepsFields(t, r) ==
    /\ items' = IF r.kind = "ok" THEN St(items, Some(r.items)) ELSE items
    /\ error' = IF r.kind # "ok" THEN St(error, Some(r.msg)) ELSE error
    /\ addOpen' = St(addOpen, FALSE)
    /\ UNCHANGED <<form, formError, editId>>
    /\ creating' = St(creating, FALSE)
    /\ UNCHANGED delVars

\* onSubmit, after the await of refresh()
onSubmitSettled(t, r) ==
    /\ items' = IF r.kind = "ok" THEN St(items, Some(r.items)) ELSE items
    /\ error' = IF r.kind # "ok" THEN St(error, Some(r.msg)) ELSE error
    /\ addOpen' = St(addOpen, FALSE)
    /\ resetAddForm
    /\ creating' = St(creating, FALSE)
    /\ UNCHANGED delVars

\* The flow i resumes with the outcome r of its fetchProjects and ends.
Settle(i, r) ==
    /\ CASE tasks[i].kind = "load"    -> loadSettled(tasks[i], r)
         [] tasks[i].kind = "refresh" -> refreshSettled(tasks[i], r)
         [] tasks[i].kind = "delete"  -> handleDeleteSettled(tasks[i], r)
         [] tasks[i].kind = "submit"  -> onSubmitSettled(tasks[i], r)
    /\ tasks' = Remove(tasks, i)
    /\ lastLoad' = IF lastLoad # "pending" \/ Superseded(i) THEN lastLoad
                   ELSE IF r.kind = "ok" THEN "ok" ELSE "failed"
    /\ UNCHANGED <<projects, mounted, ops>>
    /\ viewKept

\* The list request is answered 200: fetchProjects goes on to the detail
\* requests, all issued at once.
IndexOk(i) ==
    /\ tasks[i].pc = "index"
    /\ ~tasks[i].aborted
    /\ LET json == ListBody(projects)
           base == BaseOf(json)
       IN  tasks' = [tasks EXCEPT ![i].pc = "details", ![i].json = json,
                                  ![i].base = base,
                                  ![i].res = [k \in 1..Len(base) |-> NULL]]
    /\ UNCHANGED <<projects, mounted, collVars, delVars, formVars, lastLoad, ops>>
    /\ viewKept

\* The list request is answered non-2xx, or fails in transport.
IndexFail(i) ==
    /\ tasks[i].pc = "index"
    /\ ~tasks[i].aborted
    /\ \E msg \in {Http500, FailedToFetch} : Settle(i, Threw(msg))

\* The list request's signal was aborted: fetch rejects with the AbortError.
IndexAbort(i) ==
    /\ tasks[i].pc = "index"
    /\ tasks[i].aborted
    /\ Settle(i, Aborted)

\* One detail request settles.
DetailSettle(i, k) ==
    /\ tasks[i].pc = "details"
    /\ tasks[i].res[k] = NULL
    /\ \E resp \in IF tasks[i].aborted THEN {AbortedResponse}
                   ELSE DetailResponses(projects, tasks[i].base[k].url) :
         tasks' = [tasks EXCEPT ![i].res[k] = Some(resp)]
    /\ UNCHANGED <<projects, mounted, collVars, delVars, formVars, lastLoad, ops>>
    /\ viewKept

\* enrichedOf collecting the results last entry first.
enrichedOf_Reversed(t) ==
    [k \in 1..Len(t.base) |->
        EnrichedOf(t.base[Len(t.base) + 1 - k], Val(t.res[Len(t.base) + 1 - k]))]

\* const enriched = await Promise.all(base.map(...))
enrichedOf(t) ==
    ArrayOf([k \in 1..Len(t.base) |-> EnrichedOf(t.base[k], Val(t.res[k]))])

\* FetchDone with no try/catch around the detail request: the first failed
\* request rejects Promise.all and with it fetchProjects.
FetchDone_AllOrNothing(i) ==
    /\ tasks[i].pc = "details"
    /\ \A k \in 1..Len(tasks[i].res) : tasks[i].res[k] # NULL
    /\ LET failed == {k \in 1..Len(tasks[i].res) : Val(tasks[i].res[k]).kind # "ok"}
       IN  IF failed = {} THEN Settle(i, Returned(enrichedOf(tasks[i])))
           ELSE Settle(i, Threw(Val(tasks[i].res[CHOOSE k \in failed : TRUE]).msg))

\* FetchDone resolving as soon as the first detail request has settled, the
\* entries still outstanding left bare.
FetchDone_FirstSettled(i) ==
    /\ tasks[i].pc = "details"
    /\ \E k \in 1..Len(tasks[i].res) : tasks[i].res[k] # NULL
    /\ Settle(i, Returned(ArrayOf([k \in 1..Len(tasks[i].base) |->
                 IF tasks[i].res[k] = NULL
                 THEN [url |-> tasks[i].base[k].url, pathname |-> tasks[i].base[k].pathname,
                       detail |-> NULL, error |-> NULL]
                 ELSE EnrichedOf(tasks[i].base[k], Val(tasks[i].res[k]))])))

\* Promise.all resolves: every detail request has settled.
FetchDone(i) ==
    /\ tasks[i].pc = "details"
    /\ \A k \in 1..Len(tasks[i].res) : tasks[i].res[k] # NULL
    /\ Settle(i, Returned(enrichedOf(tasks[i])))

\* The Refresh button is rendered (every branch but the error one) and not
\* disabled (isDeleting).
RefreshButtonEnabled == mounted /\ View # "error" /\ deleting = {}

\* refresh, up to its await
Refresh ==
    /\ RefreshButtonEnabled
    /\ Len(tasks) < MaxTasks
    /\ ops < MaxOps
    /\ error' = NULL
    /\ items' = NULL
    /\ tasks' = Append(tasks, Task("refresh", "index", <<>>, NoRequest))
    /\ lastLoad' = "pending"
    /\ ops' = ops + 1
    /\ UNCHANGED <<projects, mounted, delVars, formVars>>
    /\ viewKept

\* The cleanup of the mount effect: controller.abort()
Unmount ==
    /\ mounted
    /\ mounted' = FALSE
    /\ tasks' = [i \in 1..Len(tasks) |->
                   IF tasks[i].kind = "load" THEN [tasks[i] EXCEPT !.aborted = TRUE]
                   ELSE tasks[i]]
    /\ UNCHANGED <<projects, collVars, delVars, formVars, lastLoad, ops>>
    /\ viewKept

\* ------------------------------------------------------------------ index bodies

\* Entries of one index body.
MaxIndex == 2

JNull == [type |-> "null", val |-> <<>>]

JNumber == [type |-> "number", val |-> <<>>]

\* An index entry {url, pathname}
JEntry(url, pathname) == [type |-> "object", url |-> url, pathname |-> pathname]

\* What a server can put into the index: the entries of the two records, an
\* entry without url, one whose pathname is a number, one whose url is the
\* empty string, and a null.
RawEntries ==
    { JEntry(JStr(projectDetailUrl(FileA)), JStr(PathnameOf(FileA))),
      JEntry(JStr(projectDetailUrl(FileB)), JStr(PathnameOf(FileB))),
      JEntry(JUndefined, JStr(PathnameOf(FileA))),
      JEntry(JStr(projectDetailUrl(FileB)), JNumber),
      JEntry(JStr(<<>>), JStr(PathnameOf(FileA))),
      JNull }

RawLists == UNION {[1..n -> RawEntries] : n \in 0..MaxIndex}

\* A record body {data, items}
JBody(dataOf, itemsOf) == [type |-> "object", data |-> dataOf, items |-> itemsOf]

\* The text of a body that is not JSON: res.json() rejects.
NotJson == [type |-> "invalid"]

JsonSyntaxMsg == "Unexpected token"

\* The bodies of a 200 answer to the list request: each list bare, under data
\* and under items; records with neither; values that are no record; a body
\* that is not JSON.
IndexBodies ==
    {JArray(E) : E \in RawLists}
    \cup {JBody(JArray(E), JUndefined) : E \in RawLists}
    \cup {JBody(JUndefined, JArray(E)) : E \in RawLists}
    \cup {JBody(JStr(<<"x">>), JArray(E)) : E \in RawLists}
    \cup {JBody(JUndefined, JUndefined), JBody(JStr(<<"x">>), JNumber)}
    \cup {JNull, JStr(<<"x">>), JNumber}
    \cup {NotJson}

\* The list request is answered 200 with the body json: res.json() throws on
\* a body that is not JSON, else fetchProjects goes on to the detail requests.
IndexAnswered(i, json) ==
    /\ tasks[i].pc = "index"
    /\ ~tasks[i].aborted
    /\ IF json = NotJson
       THEN Settle(i, Threw(JsonSyntaxMsg))
       ELSE /\ LET base == BaseOf(json)
               IN  tasks' = [tasks EXCEPT ![i].pc = "details", ![i].json = json,
                                          ![i].base = base,
                                          ![i].res = [k \in 1..Len(base) |-> NULL]]
            /\ UNCHANGED <<projects, mounted, collVars, delVars, formVars, lastLoad, ops>>
            /\ viewKept

\* ------------------------------------------------------------------ detail bodies

JPartner(name, url) == [type |-> "object", name |-> name, url |-> url]

JDetail(title, content, date, partner) ==
    [type |-> "object", title |-> title, content |-> content, date |-> date,
     partner |-> partner]

\* The bodies of a 200 answer to a detail request: every record made of a
\* title that is a string, empty, absent or a number, a content that is a
\* string, an array or absent, a date that is a string or a number and a
\* partner that is a record, a record of ill-typed fields, null or absent;
\* a null, a string, a number and an array; and a text that is not JSON.
DetailBodies ==
    {JDetail(title, content, date, partner) :
        title   \in {JStr(<<"A">>), JStr(<<>>), JUndefined, JNumber},
        content \in {JStr(<<"x">>), JArray(<< <<"x">> >>), JUndefined},
        date    \in {JStr(<<"2">>), JNumber},
        partner \in {JPartner(JStr(<<"n">>), JStr(<<"h", ":", "u">>)),
                     JPartner(JNumber, JUndefined), JNull, JUndefined}}
    \cup {JNull, JStr(<<"A">>), JNumber, JArray(<<>>), NotJson}

\* The k-th detail request of the flow i is answered 200 with body: r.json()
\* rejects a body that is not JSON, and the catch takes the parser's message.
DetailAnswered(i, k, body) ==
    /\ tasks[i].pc = "details"
    /\ ~tasks[i].aborted
    /\ tasks[i].res[k] = NULL
    /\ tasks' = [tasks EXCEPT ![i].res[k] =
                    Some(IF body = NotJson
                         THEN [kind |-> "throw", msg |-> JsonSyntaxMsg, body |-> NoBody]
                         ELSE [kind |-> "ok", msg |-> "", body |-> body])]
    /\ UNCHANGED <<projects, mounted, collVars, delVars, formVars, lastLoad, ops>>
    /\ viewKept

\* ------------------------------------------------------------------ delete

\* A failed response: the status and the `message` of its JSON body, if any.
\* A request can always be answered 500 with no message; one that names a
\* record the server lacks is answered 404 {message: "not found"}.
FailureResponses(found) ==
    {[status |-> "500", message |-> NULL]}
    \cup (IF found THEN {} ELSE {[status |-> "404", message |-> Some(NotFoundMsg)]})

HttpStatusMsg(status) == IF status = "404" THEN Http404 ELSE Http500

\* deleteProject, createProject: the message of the Error thrown on !res.ok
requestError(resp) ==
    IF resp.message # NULL /\ Val(resp.message) # ""
    THEN Val(resp.message)
    ELSE HttpStatusMsg(resp.status)

\* putProject: the same, as the interface table has it (non-2xx, JSON
\* {message} surfaced)
putProjectError(resp) ==
    IF resp.message # NULL /\ Val(resp.message) # ""
    THEN Val(resp.message)
    ELSE HttpStatusMsg(resp.status)

\* What a mutation request can throw: the Error of a failed response, or the
\* TypeError of a transport failure.
MutationErrors(op, found) ==
    {IF op = "update" THEN putProjectError(resp) ELSE requestError(resp) :
        resp \in FailureResponses(found)}
    \cup {FailedToFetch}

\* The pathnames of the items the list shows: paged.map
ShownPaths == {it.pathname : it \in Range(paged)}

\* The trash button of an item
ClickTrash(p) ==
    /\ mounted
    /\ View = "list"
    /\ p \in ShownPaths
    /\ p \notin deleting
    /\ confirmPath # Some(p)
    /\ confirmPath' = Some(p)
    /\ UNCHANGED <<projects, mounted, collVars, deleting, formVars, tasks, lastLoad, ops>>
    /\ viewKept

\* Cancel of the confirmation prompt
CancelConfirm ==
    /\ mounted
    /\ View = "list"
    /\ confirmPath # NULL
    /\ Val(confirmPath) \notin deleting
    /\ confirmPath' = NULL
    /\ UNCHANGED <<projects, mounted, collVars, deleting, formVars, tasks, lastLoad, ops>>
    /\ viewKept

\* handleDelete behind a Delete button that is never disabled.
handleDelete_NeverDisabled ==
    /\ mounted
    /\ View = "list"
    /\ confirmPath # NULL
    /\ Len(tasks) < MaxTasks
    /\ ops < MaxOps
    /\ ops' = ops + 1
    /\ LET pathname == Val(confirmPath)
           filename == lastPathSegment(pathname)
       IN  /\ deleting' = deleting \cup {pathname}
           /\ tasks' = Append(tasks,
                  Task("delete", "mutate", pathname,
                       [op |-> "delete", filename |-> filename, payload |-> NoPayload]))
    /\ UNCHANGED <<projects, mounted, collVars, confirmPath, formVars, lastLoad>>
    /\ viewKept

\* handleDelete up to its first await: Delete of the confirmation prompt
handleDelete ==
    /\ mounted
    /\ View = "list"
    /\ confirmPath # NULL
    /\ Val(confirmPath) \notin deleting
    /\ Len(tasks) < MaxTasks
    /\ ops < MaxOps
    /\ ops' = ops + 1
    /\ LET pathname == Val(confirmPath)
           filename == lastPathSegment(pathname)
       IN  /\ deleting' = deleting \cup {pathname}
           /\ tasks' = Append(tasks,
                  Task("delete", "mutate", pathname,
                       [op |-> "delete", filename |-> filename, payload |-> NoPayload]))
    /\ UNCHANGED <<projects, mounted, collVars, confirmPath, formVars, lastLoad>>
    /\ viewKept

\* DeleteOk with no fetchProjects after the delete: the flow ends with the
\* finally block.
DeleteOk_NoReload(i) ==
    /\ tasks[i].kind = "delete"
    /\ tasks[i].pc = "mutate"
    /\ LET idx == FindIndex(projects, tasks[i].req.filename)
       IN  /\ idx # 0
           /\ projects' = Splice(projects, idx)
    /\ deleteFinally(tasks[i])
    /\ tasks' = Remove(tasks, i)
    /\ UNCHANGED <<mounted, collVars, formVars, lastLoad, ops>>
    /\ viewKept

\* The delete request is answered {ok: true}: the server spliced the record
\* out, and handleDelete goes on to fetchProjects.
DeleteOk(i) ==
    /\ tasks[i].kind = "delete"
    /\ tasks[i].pc = "mutate"
    /\ LET idx == FindIndex(projects, tasks[i].req.filename)
       IN  /\ idx # 0
           /\ projects' = Splice(projects, idx)
    /\ tasks' = Append(Remove(tasks, i), [tasks[i] EXCEPT !.pc = "index"])
    /\ lastLoad' = "pending"
    /\ UNCHANGED <<mounted, collVars, delVars, formVars, ops>>
    /\ viewKept

\* DeleteFail with the cleanup after the try block instead of in a finally:
\* the catch path skips it.
DeleteFail_NoFinally(i) ==
    /\ tasks[i].kind = "delete"
    /\ tasks[i].pc = "mutate"
    /\ \E msg \in MutationErrors("delete",
                                 FindIndex(projects, tasks[i].req.filename) # 0) :
         error' = St(error, Some(msg))
    /\ tasks' = Remove(tasks, i)
    /\ UNCHANGED <<projects, mounted, items, delVars, formVars, lastLoad, ops>>
    /\ viewKept

\* DeleteFail undoing an optimistic removal it never made: the item is
\* filtered out of the stored list.
DeleteFail_DropsItem(i) ==
    /\ tasks[i].kind = "delete"
    /\ tasks[i].pc = "mutate"
    /\ \E msg \in MutationErrors("delete",
                                 FindIndex(projects, tasks[i].req.filename) # 0) :
         error' = St(error, Some(msg))
    /\ items' = IF items = NULL THEN items
                ELSE St(items, Some(SelectSeq(Val(items),
                                              LAMBDA it : it.pathname # tasks[i].path)))
    /\ deleteFinally(tasks[i])
    /\ tasks' = Remove(tasks, i)
    /\ UNCHANGED <<projects, mounted, formVars, lastLoad, ops>>
    /\ viewKept

\* The delete request fails: handleDelete's catch and finally.
DeleteFail(i) ==
    /\ tasks[i].kind = "delete"
    /\ tasks[i].pc = "mutate"
    /\ \E msg \in MutationErrors("delete",
                                 FindIndex(projects, tasks[i].req.filename) # 0) :
         error' = St(error, Some(msg))
    /\ deleteFinally(tasks[i])
    /\ tasks' = Remove(tasks, i)
    /\ UNCHANGED <<projects, mounted, items, formVars, lastLoad, ops>>
    /\ viewKept

\* ------------------------------------------------------------------ form

FormShown == mounted /\ View \in {"list", "empty"} /\ addOpen

\* The Add button: the loading view renders no modal over it, and its handler
\* alone clears editId.
ClickAdd ==
    /\ mounted
    /\ View # "error"
    /\ View = "loading" \/ ~addOpen
    /\ formError' = NULL
    /\ editId' = IF View = "loading" THEN NULL ELSE editId
    /\ addOpen' = TRUE
    /\ UNCHANGED <<projects, mounted, collVars, delVars, creating, form, tasks, lastLoad, ops>>
    /\ viewKept

\* The Edit button of the k-th item of the page
ClickEdit(k) ==
    /\ mounted
    /\ View = "list"
    /\ ~addOpen
    /\ k \in 1..Len(paged)
    /\ paged[k].detail # NULL
    /\ LET it == paged[k]
           d  == Val(it.detail)
       IN  /\ form' = [title |-> d.title, content |-> d.content, date |-> d.date,
                       partnerName |-> d.partner.name, partnerUrl |-> d.partner.url]
           /\ editId' = Some(lastPathSegment(it.pathname))
    /\ formError' = NULL
    /\ addOpen' = TRUE
    /\ UNCHANGED <<projects, mounted, collVars, delVars, creating, tasks, lastLoad, ops>>
    /\ viewKept

\* The user types into the form.
FillForm(f) ==
    /\ FormShown
    /\ ~creating
    /\ form # f
    /\ form' = f
    /\ UNCHANGED <<projects, mounted, collVars, delVars, addOpen, editId, creating,
                   formError, tasks, lastLoad, ops>>
    /\ viewKept

\* The longest text typed into the content field.
MaxText == 5

\* The characters typed into the content field.
ContentChars == {"a", "b", " ", "\n", "\r"}

\* The user types one more character into the content field.
TypeContent(c) ==
    /\ FormShown
    /\ ~creating
    /\ Len(form.content) < MaxText
    /\ form' = [form EXCEPT !.content = Append(@, c)]
    /\ UNCHANGED <<projects, mounted, collVars, delVars, addOpen, editId, creating,
                   formError, tasks, lastLoad, ops>>
    /\ viewKept

\* Cancel of the form
CancelForm ==
    /\ FormShown
    /\ ~creating
    /\ resetAddForm
    /\ addOpen' = FALSE
    /\ UNCHANGED <<projects, mounted, collVars, delVars, creating, tasks, lastLoad, ops>>
    /\ viewKept

SchemeChars == {"h", "u", "n", "a", "b", "x", "y", "+", ".", "-", "1", "2"}

SchemeStart == {"h", "u", "n", "a", "b", "x", "y"}

\* /^[a-zA-Z][a-zA-Z0-9+.-]*:/.test(rawUrl)
hasScheme(rawUrl) ==
    /\ rawUrl # <<>>
    /\ Head(rawUrl) \in SchemeStart
    /\ \E k \in 2..Len(rawUrl) :
         /\ rawUrl[k] = ":"
         /\ \A j \in 1..(k - 1) : rawUrl[j] \in SchemeChars

HttpsPrefix == <<"https://">>

normalizedUrlOf(formPartnerUrl) ==
    LET rawUrl == Trim(formPartnerUrl)
    IN  IF hasScheme(rawUrl) THEN rawUrl ELSE HttpsPrefix \o rawUrl

\* new URL(normalizedUrl) does not throw: after https:// a host must follow,
\* and it holds no white space.
urlParses(normalizedUrl) ==
    IF Head(normalizedUrl) = "https://"
    THEN /\ Len(normalizedUrl) > 1
         /\ Range(Tail(normalizedUrl)) \cap Whitespace = {}
    ELSE TRUE

\* !formTitle || !formContent || !formDate || !formPartnerName || !formPartnerUrl
missingRequired(f) ==
    \/ f.title = <<>>
    \/ f.content = <<>>
    \/ f.date = <<>>
    \/ f.partnerName = <<>>
    \/ f.partnerUrl = <<>>

\* The payload of create and update
payloadOf(f) ==
    [title |-> f.title, content |-> PayloadContent(f.content), date |-> f.date,
     partner |-> [name |-> f.partnerName, url |-> normalizedUrlOf(f.partnerUrl)]]

\* onSubmit sending the partner URL without parsing it.
onSubmit_NoUrlCheck ==
    /\ FormShown
    /\ ~creating
    /\ IF missingRequired(form)
       THEN /\ formError' = Some(FillRequiredMsg)
            /\ UNCHANGED <<creating, tasks, ops>>
       ELSE /\ Len(tasks) < MaxTasks
            /\ ops < MaxOps
            /\ ops' = ops + 1
            /\ formError' = NULL
            /\ creating' = TRUE
            /\ tasks' = Append(tasks,
                   Task("submit", "mutate", <<>>,
                        IF View = "list" /\ editId # NULL
                        THEN [op |-> "update", filename |-> Val(editId),
                              payload |-> payloadOf(form)]
                        ELSE [op |-> "create", filename |-> <<>>,
                              payload |-> payloadOf(form)]))
    /\ UNCHANGED <<projects, mounted, collVars, delVars, addOpen, editId, form, lastLoad>>
    /\ viewKept

\* onSubmit with a Save button that stays enabled while creating.
onSubmit_SaveNeverDisabled ==
    /\ FormShown
    /\ IF missingRequired(form)
       THEN /\ formError' = Some(FillRequiredMsg)
            /\ UNCHANGED <<creating, tasks, ops>>
       ELSE IF ~urlParses(normalizedUrlOf(form.partnerUrl))
       THEN /\ formError' = Some(InvalidUrlMsg)
            /\ UNCHANGED <<creating, tasks, ops>>
       ELSE /\ Len(tasks) < MaxTasks
            /\ ops < MaxOps
            /\ ops' = ops + 1
            /\ formError' = NULL
            /\ creating' = TRUE
            /\ tasks' = Append(tasks,
                   Task("submit", "mutate", <<>>,
                        IF View = "list" /\ editId # NULL
                        THEN [op |-> "update", filename |-> Val(editId),
                              payload |-> payloadOf(form)]
                        ELSE [op |-> "create", filename |-> <<>>,
                              payload |-> payloadOf(form)]))
    /\ UNCHANGED <<projects, mounted, collVars, delVars, addOpen, editId, form, lastLoad>>
    /\ viewKept

\* onSubmit up to its first await.  The form of the list branch updates when
\* editId is set; the form of the empty branch always creates.
onSubmit ==
    /\ FormShown
    /\ ~creating
    /\ IF missingRequired(form)
       THEN /\ formError' = Some(FillRequiredMsg)
            /\ UNCHANGED <<creating, tasks, ops>>
       ELSE IF ~urlParses(normalizedUrlOf(form.partnerUrl))
       THEN /\ formError' = Some(InvalidUrlMsg)
            /\ UNCHANGED <<creating, tasks, ops>>
       ELSE /\ Len(tasks) < MaxTasks
            /\ ops < MaxOps
            /\ ops' = ops + 1
            /\ formError' = NULL
            /\ creating' = TRUE
            /\ tasks' = Append(tasks,
                   Task("submit", "mutate", <<>>,
                        IF View = "list" /\ editId # NULL
                        THEN [op |-> "update", filename |-> Val(editId),
                              payload |-> payloadOf(form)]
                        ELSE [op |-> "create", filename |-> <<>>,
                              payload |-> payloadOf(form)]))
    /\ UNCHANGED <<projects, mounted, collVars, delVars, addOpen, editId, form, lastLoad>>
    /\ viewKept

\* The create or update request is answered {ok: true}, and onSubmit goes on
\* to refresh().
MutateOk(i) ==
    /\ tasks[i].kind = "submit"
    /\ tasks[i].pc = "mutate"
    /\ LET req == tasks[i].req
           idx == FindIndex(projects, req.filename)
       IN  IF req.op = "create"
           THEN /\ Len(projects) < MaxServer
                /\ projects' = <<CreatedRecord(req.payload)>> \o projects
           ELSE /\ idx # 0
                /\ projects' = [projects EXCEPT ![idx].detail = UpdatedDetail(req.payload)]
    /\ error' = St(error, NULL)
    /\ items' = St(items, NULL)
    /\ tasks' = Append(Remove(tasks, i), [tasks[i] EXCEPT !.pc = "index"])
    /\ lastLoad' = "pending"
    /\ UNCHANGED <<mounted, delVars, formVars, ops>>
    /\ viewKept

\* MutateFail going on to close and reset the form as after a success.
MutateFail_ClosesForm(i) ==
    /\ tasks[i].kind = "submit"
    /\ tasks[i].pc = "mutate"
    /\ addOpen' = St(addOpen, FALSE)
    /\ resetAddForm
    /\ creating' = St(creating, FALSE)
    /\ tasks' = Remove(tasks, i)
    /\ UNCHANGED <<projects, mounted, collVars, delVars, lastLoad, ops>>
    /\ viewKept

\* The create or update request fails: the inner catch, then finally.
MutateFail(i) ==
    /\ tasks[i].kind = "submit"
    /\ tasks[i].pc = "mutate"
    /\ \E msg \in MutationErrors(tasks[i].req.op,
                                 \/ tasks[i].req.op = "create"
                                 \/ FindIndex(projects, tasks[i].req.filename) # 0) :
         formError' = St(formError, Some(msg))
    /\ creating' = St(creating, FALSE)
    /\ tasks' = Remove(tasks, i)
    /\ UNCHANGED <<projects, mounted, collVars, delVars, addOpen, editId, form, lastLoad, ops>>
    /\ viewKept

\* ------------------------------------------------------------------ paging

\* A server long enough to page: the k-th record's file name, title and date.
Letters == <<"a", "b", "c", "d", "e", "f", "g", "h", "i", "j", "k", "l", "m">>

ListedTitles == << <<"A">>, <<"B">>, <<"B", "A">> >>

\* A later date, an earlier one, none, one Date.parse rejects, one before 1970.
ListedDates == << <<"2">>, <<"1">>, <<>>, <<"x">>, <<"-", "1">> >>

ListedRecord(k) ==
    LET filename == <<Letters[k]>> \o Ext
    IN  [filename |-> filename, pathname |-> PathnameOf(filename),
         detail |-> [title |-> ListedTitles[((k - 1) % 3) + 1],
                     content |-> JStr(<<"x">>),
                     date |-> ListedDates[((k - 1) % 5) + 1],
                     partner |-> [name |-> <<"n">>, url |-> <<"h", ":", "u">>]]]

ListedProjects(n) == [k \in 1..n |-> ListedRecord(k)]

\* The servers paged: an empty one, one of two pages, one of MaxListed records.
ListedSizes == {0, PAGE_SIZE + 1, MaxListed}

PageInit == \E n \in ListedSizes : InitWith(ListedProjects(n))

\* fetchProjects against projs, the detail requests of the even entries
\* failing in transport when failing, every other one answered 200.
FetchedWith(projs, failing) ==
    LET base == BaseOf(ListBody(projs))
    IN  ArrayOf([k \in 1..Len(base) |->
                   EnrichedOf(base[k],
                              IF failing /\ k % 2 = 0
                              THEN [kind |-> "throw", msg |-> FailedToFetch,
                                    body |-> NoBody]
                              ELSE [kind |-> "ok", msg |-> "",
                                    body |-> DetailBody(projs[k].detail)])])

\* The list request and every detail request of the flow i are answered.
FetchAnswered(i) ==
    /\ tasks[i].pc = "index"
    /\ ~tasks[i].aborted
    /\ \E failing \in BOOLEAN : Settle(i, Returned(FetchedWith(projects, failing)))

\* The last item of the page shown, the one whose trash button is pressed.
EdgePaths == IF paged = <<>> THEN {} ELSE {paged[Len(paged)].pathname}

\* What the user types into the search input.
SearchInputs == {<<>>, <<" ">>, <<" ", "A">>}

\* onChange of the search input, and its clear button
setSearchQuery(q) ==
    /\ mounted
    /\ View # "error"
    /\ searchQuery # q
    /\ searchQuery' = q
    /\ UNCHANGED <<projects, mounted, collVars, delVars, formVars, tasks, lastLoad, ops>>
    /\ memoKept
    /\ page' = pageAfter(page)

\* The pagination bar is rendered.
PaginationShown == mounted /\ View = "list" /\ Len(list) > PAGE_SIZE

\* Prev: setPage((p) => Math.max(1, p - 1)), disabled on the first page
PrevPage ==
    /\ PaginationShown
    /\ page > 1
    /\ UNCHANGED <<projects, mounted, collVars, delVars, formVars, tasks, lastLoad, ops,
                   searchQuery, filteredSorted>>
    /\ page' = pageAfter(Max(1, page - 1))

\* Next: setPage((p) => Math.min(totalPages, p + 1)), disabled on the last page
NextPage ==
    /\ PaginationShown
    /\ page < totalPages
    /\ UNCHANGED <<projects, mounted, collVars, delVars, formVars, tasks, lastLoad, ops,
                   searchQuery, filteredSorted>>
    /\ page' = pageAfter(Min(totalPages, page + 1))

\* ------------------------------------------------------------------ spec

\* The responses of the network and what each flow does with them.
Respond ==
    \/ \E i \in 1..Len(tasks) : IndexOk(i)
    \/ \E i \in 1..Len(tasks) : IndexFail(i)
    \/ \E i \in 1..Len(tasks) : IndexAbort(i)
    \/ \E i \in 1..Len(tasks) : \E k \in 1..Len(tasks[i].res) : DetailSettle(i, k)
    \/ \E i \in 1..Len(tasks) : FetchDone(i)
    \/ \E i \in 1..Len(tasks) : DeleteOk(i)
    \/ \E i \in 1..Len(tasks) : DeleteFail(i)

DeleteClicks ==
    \/ \E p \in ShownPaths : ClickTrash(p)
    \/ CancelConfirm
    \/ handleDelete

\* The list synchronization: loads, refreshes, deletes and the teardown.
Next ==
    \/ Respond
    \/ DeleteClicks
    \/ Refresh
    \/ Unmount

Spec == Init /\ [][Next]_vars

\* The deletes alone, every issued request eventually completing.
DeleteNext ==
    \/ Respond
    \/ DeleteClicks
    \/ Unmount

FairSpec == Init /\ [][DeleteNext]_vars /\ WF_vars(Respond)

\* The form with the mutations: create, update and delete, and their reloads.
FormNext ==
    \/ Respond
    \/ DeleteClicks
    \/ ClickAdd
    \/ \E k \in 1..PAGE_SIZE : ClickEdit(k)
    \/ \E f \in FormInputs : FillForm(f)
    \/ CancelForm
    \/ onSubmit
    \/ \E i \in 1..Len(tasks) : MutateOk(i)
    \/ \E i \in 1..Len(tasks) : MutateFail(i)

FormSpec == Init /\ [][FormNext]_vars

\* The mount load against a server that answers the list request with any
\* of IndexBodies.
ParseNext ==
    \/ \E i \in 1..Len(tasks) : \E json \in IndexBodies : IndexAnswered(i, json)
    \/ \E i \in 1..Len(tasks) : IndexFail(i)
    \/ \E i \in 1..Len(tasks) : IndexAbort(i)
    \/ \E i \in 1..Len(tasks) : \E k \in 1..Len(tasks[i].res) : DetailSettle(i, k)
    \/ \E i \in 1..Len(tasks) : FetchDone(i)
    \/ Unmount

ParseSpec == Init /\ [][ParseNext]_vars

\* The paged list: loads, searches, page turns, refreshes and deletes over a
\* server of up to MaxListed records.
PageNext ==
    \/ \E i \in 1..Len(tasks) : FetchAnswered(i)
    \/ \E i \in 1..Len(tasks) : IndexFail(i)
    \/ \E i \in 1..Len(tasks) : IndexAbort(i)
    \/ \E i \in 1..Len(tasks) : DeleteOk(i)
    \/ \E i \in 1..Len(tasks) : DeleteFail(i)
    \/ \E p \in EdgePaths : ClickTrash(p)
    \/ CancelConfirm
    \/ handleDelete
    \/ Refresh
    \/ \E q \in SearchInputs : setSearchQuery(q)
    \/ PrevPage
    \/ NextPage

PageSpec == PageInit /\ [][PageNext]_vars

\* The mount load against a server that answers the detail requests with any
\* of DetailBodies.
DetailNext ==
    \/ \E i \in 1..Len(tasks) : IndexOk(i)
    \/ \E i \in 1..Len(tasks) : IndexAbort(i)
    \/ \E i \in 1..Len(tasks) : \E k \in 1..Len(tasks[i].res) :
          \E body \in DetailBodies : DetailAnswered(i, k, body)
    \/ \E i \in 1..Len(tasks) : FetchDone(i)

DetailSpec == Init /\ [][DetailNext]_vars

\* The form filled in a character of content at a time and submitted, the
\* create or update request left unanswered.
ContentNext ==
    \/ \E i \in 1..Len(tasks) : FetchAnswered(i)
    \/ \E i \in 1..Len(tasks) : IndexAbort(i)
    \/ ClickAdd
    \/ \E k \in 1..PAGE_SIZE : ClickEdit(k)
    \/ FillForm([FilledForm EXCEPT !.content = <<>>])
    \/ \E c \in ContentChars : TypeContent(c)
    \/ CancelForm
    \/ onSubmit

ContentSpec == Init /\ [][ContentNext]_vars

\* What the network answers to a load and to a create or update request.
SubmitResponds ==
    \/ \E i \in 1..Len(tasks) : IndexOk(i)
    \/ \E i \in 1..Len(tasks) : IndexFail(i)
    \/ \E i \in 1..Len(tasks) : IndexAbort(i)
    \/ \E i \in 1..Len(tasks) : \E k \in 1..Len(tasks[i].res) : DetailSettle(i, k)
    \/ \E i \in 1..Len(tasks) : FetchDone(i)
    \/ \E i \in 1..Len(tasks) : MutateOk(i)
    \/ \E i \in 1..Len(tasks) : MutateFail(i)

\* The form with create and update alone.
SubmitNext ==
    \/ SubmitResponds
    \/ ClickAdd
    \/ \E k \in 1..PAGE_SIZE : ClickEdit(k)
    \/ \E f \in FormInputs : FillForm(f)
    \/ CancelForm
    \/ onSubmit

\* Create and update, every issued request eventually completing.
FairSubmitSpec == Init /\ [][SubmitNext]_vars /\ WF_vars(SubmitResponds)

\* The form with the mutations against a server that holds one project, so
\* that one delete empties the list.
EditInit == InitWith(SubSeq(InitialProjects, 1, 1))

EditSpec == EditInit /\ [][FormNext]_vars

\* ------------------------------------------------------------------ claims

\* Steps, told from the two states they join.

\* The flow at position i ends in this step.
Ends(i) == tasks' = Remove(tasks, i)

\* The flow at position i goes on to its reload in this step.
Reloads(i) ==
    /\ Len(tasks') = Len(tasks)
    /\ SubSeq(tasks', 1, Len(tasks) - 1) = Remove(tasks, i)
    /\ tasks'[Len(tasks)] = [tasks[i] EXCEPT !.pc = "index"]

\* The list entries (url, pathname) of a stored collection.
EntriesOf(enriched) ==
    [k \in 1..Len(enriched) |-> [url |-> enriched[k].url, pathname |-> enriched[k].pathname]]

\* C1: a load started while an earlier load is in flight cancels the earlier
\* one, and the earlier one's completion writes neither items nor the
\* list-level error.
C1_NewLoadCancelsEarlier ==
    [][\A i \in 1..Len(tasks) :
          (InLoad(tasks[i]) /\ Superseded(i)) =>
              /\ tasks[i].aborted
              /\ Ends(i) => UNCHANGED collVars]_vars

\* C2: when a load whose signal was aborted ends, during the index request or
\* during the detail requests, items and the list-level error are left as
\* they were.
C2_AbortLeavesCollection ==
    [][\A i \in 1..Len(tasks) :
          (InLoad(tasks[i]) /\ tasks[i].aborted /\ Ends(i)) => UNCHANGED collVars]_vars

\* C2 witness: an aborted load whose detail requests have all settled, one
\* with its detail and one cancelled: fetchProjects is about to return a
\* partially enriched collection.
C2_Witness ==
    \E i \in 1..Len(tasks) :
        /\ tasks[i].aborted
        /\ tasks[i].pc = "details"
        /\ \A k \in 1..Len(tasks[i].res) : tasks[i].res[k] # NULL
        /\ \E k \in 1..Len(tasks[i].res) : Val(tasks[i].res[k]).kind = "abort"
        /\ \E k \in 1..Len(tasks[i].res) : Val(tasks[i].res[k]).kind = "ok"

\* C3: after the teardown every flow still in flight has its requests
\* cancelled, and no step changes the view's state.
C3_TeardownCancelsAll ==
    [][~mounted =>
          /\ \A i \in 1..Len(tasks) : tasks[i].aborted
          /\ UNCHANGED <<collVars, delVars, formVars>>]_vars

\* A detail response that fails: non-2xx, a transport error, or a body that is
\* no record or has no non-empty string title.
DetailFailed(resp) ==
    \/ resp.kind \in {"status", "throw"}
    \/ /\ resp.kind = "ok"
       /\ \/ resp.body.type # "object"
          \/ resp.body.title.type # "string"
          \/ resp.body.title.val = <<>>

\* C4: a load that is not cancelled and whose index request succeeded stores
\* one item per index entry, in the index's order; the item of an entry whose
\* detail request failed has error set and no detail, every other item has
\* detail set and no error.
C4_DetailFailureContained ==
    [][\A i \in 1..Len(tasks) :
          (mounted /\ tasks[i].pc = "details" /\ ~tasks[i].aborted /\ Ends(i)) =>
              /\ items' # NULL
              /\ EntriesOf(Val(items')) = tasks[i].base
              /\ \A k \in 1..Len(tasks[i].base) :
                    IF DetailFailed(Val(tasks[i].res[k]))
                    THEN Val(items')[k].error # NULL /\ Val(items')[k].detail = NULL
                    ELSE Val(items')[k].detail # NULL /\ Val(items')[k].error = NULL]_vars

\* C4 witness: a stored collection of two items, one with error and no detail,
\* the other with detail and no error.
C4_Witness ==
    /\ mounted
    /\ items # NULL
    /\ Len(Val(items)) = 2
    /\ \E j, k \in 1..2 :
          /\ Val(items)[j].error # NULL /\ Val(items)[j].detail = NULL
          /\ Val(items)[k].detail # NULL /\ Val(items)[k].error = NULL

\* C5: when the index request of a load fails (not by cancellation), the view
\* shows the failure message and a new load can be started.
C5_IndexFailureShownRetryable ==
    [][\A i \in 1..Len(tasks) :
          (mounted /\ tasks[i].pc = "index" /\ ~tasks[i].aborted /\ Ends(i)) =>
              /\ error' # NULL
              /\ View' = "error"
              /\ RefreshButtonEnabled']_vars

\* The pathnames whose delete is in flight.
PendingDeletes == {tasks[i].path : i \in {j \in 1..Len(tasks) : tasks[j].kind = "delete"}}

\* C6: a pathname is in the Deletion set exactly while its own delete is in
\* flight, whatever the other deletes do.
C6_DeletionSetPerPath == mounted => deleting = PendingDeletes

\* C6 witness: two deletes pending at once.
C6_Witness == mounted /\ Cardinality(deleting) = 2 /\ Cardinality(PendingDeletes) = 2

\* C7: a pathname is in the Deletion set from the moment its delete request is
\* issued; every issued request completing, it is eventually removed; and the
\* step that ends the delete closes the confirmation prompt.
C7_DeleteEventuallyLeavesSet ==
    /\ [](mounted => PendingDeletes \subseteq deleting)
    /\ \A p \in {PathnameOf(FileA), PathnameOf(FileB)} :
          (p \in deleting) ~> (p \notin deleting \/ ~mounted)
    /\ [][\A i \in 1..Len(tasks) :
             (mounted /\ tasks[i].kind = "delete" /\ Ends(i)) =>
                 /\ tasks[i].path \notin deleting'
                 /\ confirmPath' = NULL]_vars

\* C7 witness: a delete succeeded, its flow has ended, and the Deletion set is
\* empty and the prompt closed.
C7_Witness ==
    /\ mounted
    /\ Len(projects) < Len(InitialProjects)
    /\ tasks = <<>>
    /\ deleting = {}
    /\ confirmPath = NULL

\* The delete request of the flow at position i fails in this step: the flow
\* leaves its await and the server still holds what it held.
DeleteRequestFails(i) ==
    /\ tasks[i].kind = "delete"
    /\ tasks[i].pc = "mutate"
    /\ projects' = projects
    /\ Ends(i) \/ Reloads(i)

\* C8: when a delete request fails the flow ends without a reload, and the
\* stored items are left as they were.
C8_FailedDeleteKeepsItems ==
    [][\A i \in 1..Len(tasks) :
          DeleteRequestFails(i) => (Ends(i) /\ items' = items)]_vars

\* C8 witness: a delete has failed (a list-level error although the latest
\* load succeeded and no flow is left) and both records are still stored.
C8_Witness ==
    /\ mounted
    /\ tasks = <<>>
    /\ lastLoad = "ok"
    /\ error # NULL
    /\ items # NULL
    /\ EntriesOf(Val(items)) = BaseOf(ListBody(InitialProjects))

\* C9: a failed create, update or delete changes neither items nor the
\* list-level error.
C9_FailedMutationKeepsCollection ==
    [][\A i \in 1..Len(tasks) :
          (tasks[i].pc = "mutate" /\ Ends(i)) => UNCHANGED collVars]_vars

\* C10: no flow in flight and the most recently started load having
\* succeeded, the stored collection lists the server's index entries in the
\* server's order.
C10_CollectionMatchesServer ==
    (mounted /\ tasks = <<>> /\ lastLoad = "ok") =>
        /\ items # NULL
        /\ EntriesOf(Val(items)) = BaseOf(ListBody(projects))

\* The entries a body holds under one of the three shapes, NULL for a body of
\* another shape.
ShapeEntries(json) ==
    IF json.type = "array" THEN Some(json.val)
    ELSE IF json.type # "object" THEN NULL
    ELSE IF json.data.type = "array" THEN Some(json.data.val)
    ELSE IF json.items.type = "array" THEN Some(json.items.val)
    ELSE NULL

RawOf(json) == IF ShapeEntries(json) = NULL THEN <<>> ELSE Val(ShapeEntries(json))

\* An entry that lacks a string url or a string pathname.
LacksStringField(e) ==
    \/ e.type # "object"
    \/ e.url.type # "string"
    \/ e.pathname.type # "string"

\* An entry that lacks a non-empty string url or a non-empty string pathname.
LacksNonEmptyField(e) ==
    \/ LacksStringField(e)
    \/ e.url.val = <<>>
    \/ e.pathname.val = <<>>

\* Whether an entry counts as malformed: one that lacks a string url or a
\* string pathname, and with emptyToo one whose url or pathname is empty.
Lacks(e, emptyToo) == IF emptyToo THEN LacksNonEmptyField(e) ELSE LacksStringField(e)

\* The entries of raw that are not malformed, in the order of raw.
KeptOf(raw, emptyToo) ==
    LET kept == SelectSeq(raw, LAMBDA e : ~Lacks(e, emptyToo))
    IN  [k \in 1..Len(kept) |-> [url |-> kept[k].url.val, pathname |-> kept[k].pathname.val]]

\* A load that has read its index keeps exactly the entries that are not
\* malformed: N - K of N, in the order of the index.
KeepsExactly(emptyToo) ==
    \A i \in 1..Len(tasks) :
        tasks[i].pc = "details" =>
            LET raw == RawOf(tasks[i].json)
                K   == Cardinality({k \in 1..Len(raw) : Lacks(raw[k], emptyToo)})
            IN  /\ Len(tasks[i].base) = Len(raw) - K
                /\ tasks[i].base = KeptOf(raw, emptyToo)

\* A load that ends after its detail requests stores N - K items and no error.
EndsWithKept(emptyToo) ==
    \A i \in 1..Len(tasks) :
        (mounted /\ tasks[i].pc = "details" /\ ~tasks[i].aborted /\ Ends(i)) =>
            LET raw == RawOf(tasks[i].json)
                K   == Cardinality({k \in 1..Len(raw) : Lacks(raw[k], emptyToo)})
            IN  /\ items' # NULL
                /\ Len(Val(items')) = Len(raw) - K
                /\ error' = error

\* C11 as stated: of the N entries of an index, the K that lack a string url
\* or a string pathname are dropped and the load yields the other N - K
\* items, without failing.
C11_MalformedEntriesDropped ==
    /\ []KeepsExactly(FALSE)
    /\ [][EndsWithKept(FALSE)]_vars

\* C11 amended: the K dropped entries are those that lack a non-empty string
\* url or a non-empty string pathname; the load yields the other N - K items,
\* one per remaining entry in index order, without failing.
C11_EmptyOrMalformedEntriesDropped ==
    /\ []KeepsExactly(TRUE)
    /\ [][EndsWithKept(TRUE)]_vars

\* C11 witness: an index of two entries, one of them without url, is being
\* loaded and one entry was kept.
C11_Witness ==
    \E i \in 1..Len(tasks) :
        /\ tasks[i].pc = "details"
        /\ Len(RawOf(tasks[i].json)) = 2
        /\ \E k \in 1..2 : /\ RawOf(tasks[i].json)[k].type = "object"
                            /\ RawOf(tasks[i].json)[k].url.type = "undefined"
        /\ Len(tasks[i].base) = 1

\* The three shapes yield the same entries: what a load keeps of a body
\* holding E is what it keeps of the bare array E.
SameEntriesForShapes ==
    \A i \in 1..Len(tasks) :
        (tasks[i].pc = "details" /\ ShapeEntries(tasks[i].json) # NULL) =>
            /\ listRaw(tasks[i].json) = Val(ShapeEntries(tasks[i].json))
            /\ tasks[i].base = BaseOf(JArray(Val(ShapeEntries(tasks[i].json))))

\* A JSON body of another shape yields an empty index, and the load ends with
\* an empty collection and no error.
OtherJsonLoadsEmpty ==
    /\ [](\A i \in 1..Len(tasks) :
            (tasks[i].pc = "details" /\ ShapeEntries(tasks[i].json) = NULL) =>
                tasks[i].base = <<>>)
    /\ [][\A i \in 1..Len(tasks) :
            (/\ mounted /\ tasks[i].pc = "details" /\ ~tasks[i].aborted
             /\ ShapeEntries(tasks[i].json) = NULL /\ Ends(i)) =>
                (items' = Some(<<>>) /\ error' = error)]_vars

\* C12 as stated: the same entries are extracted from a bare array E, from
\* {data: E} and from {items: E}, and any other response body gives an empty
\* index and an empty loaded collection: no 200 answer to the list request
\* makes the load fail, so a load that ends at the list request ended by a
\* non-2xx status or a transport failure.
C12_ShapesAgreeOthersEmpty ==
    /\ []SameEntriesForShapes
    /\ OtherJsonLoadsEmpty
    /\ [][\A i \in 1..Len(tasks) :
            (mounted /\ tasks[i].pc = "index" /\ ~tasks[i].aborted /\ Ends(i)) =>
                error' \in {Some(Http500), Some(FailedToFetch)}]_vars

\* C12 amended: the same entries are extracted from a bare array E, from
\* {data: E} and from {items: E}, and any other JSON body gives an empty index
\* and an empty loaded collection, not an error.
C12_ShapesAgreeOtherJsonEmpty ==
    /\ []SameEntriesForShapes
    /\ OtherJsonLoadsEmpty

\* C12 witness: a record body {items: E} with two well-formed entries is
\* being loaded with both entries kept, in the order of E.
C12_Witness ==
    \E i \in 1..Len(tasks) :
        /\ tasks[i].pc = "details"
        /\ tasks[i].json.type = "object"
        /\ tasks[i].json.items.type = "array"
        /\ Len(tasks[i].base) = 2
        /\ tasks[i].base = KeptOf(tasks[i].json.items.val, TRUE)

\* The details the server answers for the record a url names, the content
\* as the text it is.
DetailsAt(url) ==
    {[projects[j].detail EXCEPT !.content = @.val] :
        j \in {n \in 1..Len(projects) : projects[n].filename = lastPathSegment(url)}}

\* C13: when a load ends, in whatever order its detail requests were
\* answered, item k of the stored collection is the k-th kept entry of the
\* index, and a detail it carries is the detail of the record its url names.
C13_IndexOrderPreserved ==
    [][\A i \in 1..Len(tasks) :
          (mounted /\ tasks[i].pc = "details" /\ Ends(i)) =>
              /\ items' # NULL
              /\ EntriesOf(Val(items')) = KeptOf(RawOf(tasks[i].json), TRUE)
              /\ \A k \in 1..Len(Val(items')) :
                    Val(items')[k].detail # NULL =>
                        Val(Val(items')[k].detail) \in DetailsAt(Val(items')[k].url)]_vars

\* C13 witness: of a load with two entries the second detail request was
\* answered with its detail while the first is still pending.
C13_Witness ==
    \E i \in 1..Len(tasks) :
        /\ tasks[i].pc = "details"
        /\ ~tasks[i].aborted
        /\ Len(tasks[i].base) = 2
        /\ tasks[i].base[1] # tasks[i].base[2]
        /\ tasks[i].res[1] = NULL
        /\ tasks[i].res[2] # NULL
        /\ Val(tasks[i].res[2]).kind = "ok"

\* The claimed page count: max(1, ceil(n / pageSize)).
CeilDiv(n, d) == CHOOSE t \in 0..n : t * d >= n /\ (t - 1) * d < n

ClaimedPages(n) == IF CeilDiv(n, PAGE_SIZE) >= 1 THEN CeilDiv(n, PAGE_SIZE) ELSE 1

\* C14: after any sequence of loads, search changes, deletions and page
\* turns the current page lies in 1..totalPages, totalPages being
\* max(1, ceil(filteredCount / pageSize)); the page shown is empty only when
\* the filtered set is; 12 items at page size 5 make 3 pages and page 5 is
\* clamped to 3.
C14_PageWithinRange ==
    /\ totalPages = ClaimedPages(Len(filteredSorted))
    /\ mounted => /\ 1 <= page
                  /\ page <= totalPages
                  /\ filteredSorted # <<>> => paged # <<>>
    /\ PAGE_SIZE = 5 => totalPagesOf(12) = 3 /\ clampPage(5, 12) = 3

\* Deletes have shortened the list to full pages and the last of them is
\* shown, the search text being blank.
C14_Witness ==
    /\ mounted
    /\ page >= 2
    /\ page = totalPages
    /\ searchQuery # <<>>
    /\ Len(filteredSorted) = page * PAGE_SIZE
    /\ Len(list) < Len(ListedProjects(MaxListed))

\* The item has no date to order by: no detail, or a date that is missing or
\* that Date.parse rejects.
Undated(it) == it.detail = NULL \/ DateParse(Val(it.detail).date) = NULL

\* The claimed date value of an item
ClaimedDate(it) == IF Undated(it) THEN 0 ELSE Val(DateParse(Val(it.detail).date))

\* The place of the item in the loaded collection
PlaceInList(it) == CHOOSE k \in 1..Len(list) : list[k].pathname = it.pathname

\* The projection is in descending order of the claimed date value, items of
\* equal value in the order of the collection.
DescendingAndStable ==
    \A i, j \in 1..Len(filteredSorted) :
        i < j =>
            /\ ClaimedDate(filteredSorted[i]) >= ClaimedDate(filteredSorted[j])
            /\ ClaimedDate(filteredSorted[i]) = ClaimedDate(filteredSorted[j])
                   => PlaceInList(filteredSorted[i]) < PlaceInList(filteredSorted[j])

\* C15: the projection is sorted by detail date descending, an item whose
\* date is missing or unparseable (or that has no detail) being ordered as
\* date zero, that is as the earliest: no dated item comes behind it, one
\* dated at zero excepted; items of equal date keep their relative order.
C15_UndatedOrderedEarliest ==
    mounted =>
        /\ DescendingAndStable
        /\ \A i, j \in 1..Len(filteredSorted) :
               i < j /\ Undated(filteredSorted[i]) =>
                   \/ Undated(filteredSorted[j])
                   \/ ClaimedDate(filteredSorted[j]) = 0

\* The text is empty or whitespace only.
Blank(t) == \A k \in 1..Len(t) : t[k] \in Whitespace

\* needle occurs in hay at some offset.
Contains(hay, needle) ==
    \E k \in 0..(Len(hay) - Len(needle)) : SubSeq(hay, k + 1, k + Len(needle)) = needle

\* The items the claim retains under the search text
Retained ==
    IF Blank(searchQuery) THEN {it \in Range(list) : TRUE}
    ELSE {it \in Range(list) :
            /\ it.detail # NULL
            /\ Contains(ToLowerCase(Val(it.detail).title), ToLowerCase(Trim(searchQuery)))}

\* C16: under a search text that is not blank the projection retains exactly
\* the items with a detail whose case-folded title contains the trimmed,
\* case-folded text, items without a detail being left out; under a blank
\* search text it retains every item.
C16_SearchRetainsTitleMatches ==
    mounted =>
        /\ Range(filteredSorted) = Retained
        /\ Len(filteredSorted) = Cardinality(Retained)

\* A search text that needs trimming and case folding retains some items and
\* leaves out an item without a detail and one whose title does not match.
C16_Witness ==
    /\ mounted
    /\ ~Blank(searchQuery)
    /\ Trim(searchQuery) # searchQuery
    /\ ToLowerCase(Trim(searchQuery)) # Trim(searchQuery)
    /\ filteredSorted # <<>>
    /\ \E it \in Range(list) \ Range(filteredSorted) : it.detail = NULL
    /\ \E it \in Range(list) \ Range(filteredSorted) : it.detail # NULL

\* The create request of the flow i is answered {ok: true} in this step.
Creates(i) ==
    /\ i \in 1..Len(tasks)
    /\ tasks[i].kind = "submit"
    /\ tasks[i].pc = "mutate"
    /\ tasks[i].req.op = "create"
    /\ Len(projects') = Len(projects) + 1

\* The Edit button of the item it is pressed in this step.
OpensForEdit(it) ==
    /\ mounted
    /\ ~addOpen
    /\ addOpen'
    /\ it.detail # NULL
    /\ editId' = Some(lastPathSegment(it.pathname))
    /\ FindIndex(projects, lastPathSegment(it.pathname)) # 0

\* The paragraphs the server holds for the item it
StoredContent(it) == projects[FindIndex(projects, lastPathSegment(it.pathname))].detail.content

\* C17: an item created with text made of paragraphs separated by a blank
\* line is stored as the ordered sequence of those paragraphs, and opening
\* the item for editing after the reload fills the content field with the
\* stored paragraphs joined by a blank line.
C17_ContentRoundTrips ==
    /\ [][\A i \in 1..Len(tasks) :
             Creates(i) =>
                 /\ projects'[1].detail.content.type = "array"
                 /\ projects'[1].detail.content.val = tasks[i].req.payload.content]_vars
    /\ [][\A it \in Range(paged) :
             OpensForEdit(it) /\ StoredContent(it).type = "array" =>
                 form'.content = JoinParagraphs(StoredContent(it).val)]_vars

\* The form fails the client-side validation: a required field is empty, or
\* the partner URL, https:// prefixed when it has no scheme, does not parse.
FailsValidation(f) ==
    \/ \E field \in DOMAIN f : f[field] = <<>>
    \/ ~urlParses(normalizedUrlOf(f.partnerUrl))

ValidationMessages == {Some(FillRequiredMsg), Some(InvalidUrlMsg)}

\* The create and update requests in flight
MutationsInFlight(ts) ==
    Cardinality({i \in 1..Len(ts) : ts[i].kind = "submit" /\ ts[i].pc = "mutate"})

\* C18: a submit of a form that fails the client-side validation issues no
\* request, leaves the form open with a validation message and leaves the
\* collection state unchanged.
C18_InvalidSubmitSendsNothing ==
    /\ [][FormShown /\ FailsValidation(form) =>
             MutationsInFlight(tasks') <= MutationsInFlight(tasks)]_vars
    /\ [][formError' \in ValidationMessages /\ formError' # formError =>
             /\ FailsValidation(form)
             /\ addOpen /\ addOpen'
             /\ UNCHANGED <<projects, items, error, deleting, form, editId, creating,
                            tasks, ops>>]_vars

\* The form is open on a loaded list with the message of a partner URL that
\* did not parse, every required field filled in and no request in flight.
C18_Witness ==
    /\ FormShown
    /\ items # NULL
    /\ formError = Some(InvalidUrlMsg)
    /\ ~missingRequired(form)
    /\ FailsValidation(form)
    /\ tasks = <<>>

\* The flow i is a submit whose request is in flight.
Mutating(i) == tasks[i].kind = "submit" /\ tasks[i].pc = "mutate"

\* The flow i is a submit whose request has succeeded and whose reload runs.
Reloading(i) == tasks[i].kind = "submit" /\ tasks[i].pc \in {"index", "details"}

ShownFor(resp) ==
    IF resp.message = NULL THEN HttpStatusMsg(resp.status) ELSE Val(resp.message)

\* The messages of the rejections the request req can meet, and of a
\* transport failure.
RejectionMessages(req) ==
    {Some(ShownFor(resp)) :
        resp \in FailureResponses(req.op = "create"
                                  \/ FindIndex(projects, req.filename) # 0)}
    \cup {Some(FailedToFetch)}

ItemOf(i, k) == EnrichedOf(tasks[i].base[k], Val(tasks[i].res[k]))

\* C21: a cancellation is never surfaced as an error: an aborted detail
\* request yields an item with neither detail nor error, an aborted index
\* request sets no list-level error, and in every state neither the
\* list-level error nor the error of a stored item is the abort's.
C21_AbortNeverAnError ==
    /\ [](\A i \in 1..Len(tasks) : \A k \in 1..Len(tasks[i].res) :
            (tasks[i].res[k] # NULL /\ Val(tasks[i].res[k]).kind = "abort") =>
                ItemOf(i, k).detail = NULL /\ ItemOf(i, k).error = NULL)
    /\ [](/\ error # Some(AbortMsg)
          /\ items # NULL =>
                \A k \in 1..Len(Val(items)) : Val(items)[k].error # Some(AbortMsg))
    /\ [][\A i \in 1..Len(tasks) :
             (tasks[i].pc = "index" /\ tasks[i].aborted /\ Ends(i)) =>
                 error' = error]_vars

\* A detail request of a load was cancelled while another one is still
\* outstanding, and no failure message is stored.
C21_Witness ==
    /\ error = NULL
    /\ \E i \in 1..Len(tasks) :
          /\ tasks[i].pc = "details"
          /\ \E k \in 1..Len(tasks[i].res) :
                tasks[i].res[k] # NULL /\ Val(tasks[i].res[k]).kind = "abort"
          /\ \E k \in 1..Len(tasks[i].res) : tasks[i].res[k] = NULL

\* C22: the collection state is one of Unloaded, Loading, Loaded(items) and
\* Failed(message): stored items and a stored list-level failure message
\* never coexist, and the view is in the loading state without data only
\* while a load is in flight.
C22_CollectionStateIsOneOfFour ==
    mounted =>
        /\ ~(items # NULL /\ error # NULL)
        /\ View = "loading" => \E i \in 1..Len(tasks) : InLoad(tasks[i])

\* The delete flows in flight for the pathname p
DeletesOf(ts, p) == {i \in 1..Len(ts) : ts[i].kind = "delete" /\ ts[i].path = p}

\* C23: a pathname is the target of at most one pending delete at a time,
\* and no delete is started for a pathname that is in the Deletion set.
C23_OneDeletePerPath ==
    /\ [](\A i \in 1..Len(tasks) :
            tasks[i].kind = "delete" => Cardinality(DeletesOf(tasks, tasks[i].path)) = 1)
    /\ [][\A q \in deleting :
             Cardinality(DeletesOf(tasks', q)) <= Cardinality(DeletesOf(tasks, q))]_vars

\* The delete request of a pathname is in flight and the confirmation prompt
\* is still open on that pathname.
C23_Witness ==
    /\ mounted
    /\ View = "list"
    /\ confirmPath # NULL
    /\ Val(confirmPath) \in deleting
    /\ \E i \in 1..Len(tasks) :
          /\ tasks[i].kind = "delete"
          /\ tasks[i].pc = "mutate"
          /\ tasks[i].path = Val(confirmPath)
    /\ Len(tasks) < MaxTasks
    /\ ops < MaxOps

\* The flow i is a create, update or delete whose request is in flight.
AwaitsMutation(i) == tasks[i].kind \in {"delete", "submit"} /\ tasks[i].pc = "mutate"

\* C24: every successful create, update or delete triggers its own reload,
\* whose index request is issued in the step that receives the mutation's
\* response: a step that changes the server's records moves the flow of that
\* mutation to its index request, and a mutation flow is at an index request
\* only by such a step, never while its own request is in flight.
C24_ReloadFollowsItsMutation ==
    /\ [][projects' # projects =>
             \E i \in 1..Len(tasks) : AwaitsMutation(i) /\ Reloads(i)]_vars
    /\ [][\A j \in 1..Len(tasks') :
             (tasks'[j].kind \in {"delete", "submit"} /\ tasks'[j].pc = "index") =>
                 \/ \E i \in 1..Len(tasks) : tasks[i] = tasks'[j]
                 \/ \E i \in 1..Len(tasks) : AwaitsMutation(i) /\ Reloads(i)
                                             /\ tasks'[j] = tasks'[Len(tasks')]]_vars

\* Two mutations have succeeded and each has its own reload in flight: a
\* delete and a submit.
C24_Witness ==
    /\ mounted
    /\ \E i \in 1..Len(tasks) : tasks[i].kind = "delete" /\ InLoad(tasks[i])
    /\ \E i \in 1..Len(tasks) : tasks[i].kind = "submit" /\ InLoad(tasks[i])

\* The detail requests of the flow i that are outstanding
Outstanding(i) == {k \in 1..Len(tasks[i].res) : tasks[i].res[k] = NULL}

\* C25: within one load the detail requests of all surviving entries are
\* issued together, and items are stored only when every one of them has
\* settled: the step that starts them leaves one request outstanding per
\* entry, and the step that stores a collection ends a load none of whose
\* requests is outstanding.
C25_DetailsJoinedBeforeStore ==
    /\ [][\A i \in 1..Len(tasks) :
             (/\ Len(tasks') = Len(tasks)
              /\ tasks[i].pc = "index"
              /\ tasks'[i].pc = "details") =>
                 /\ Len(tasks'[i].res) = Len(tasks'[i].base)
                 /\ \A k \in 1..Len(tasks'[i].res) : tasks'[i].res[k] = NULL]_vars
    /\ [][(items' # items /\ items' # NULL) =>
             \E i \in 1..Len(tasks) :
                 /\ tasks[i].pc = "details"
                 /\ Outstanding(i) = {}
                 /\ Ends(i)
                 /\ Len(Val(items')) = Len(tasks[i].base)]_vars

\* A refresh waits without data for the detail request of its first entry,
\* the one of its second entry having settled before it.
C25_Witness ==
    /\ mounted
    /\ items = NULL
    /\ \E i \in 1..Len(tasks) :
          /\ tasks[i].kind = "refresh"
          /\ tasks[i].pc = "details"
          /\ Outstanding(i) = {1}
          /\ Len(tasks[i].res) = 2

\* The claimed reading of a field: its text when it is a string, else empty.
ZeroOr(v) == IF v.type = "string" THEN v.val ELSE <<>>

\* The body is not a record, or its title is missing, not a string or empty.
InvalidBody(b) == b.type # "object" \/ b.title.type # "string" \/ b.title.val = <<>>

\* The item is what the claim makes of an entry answered with the body b.
ClassifiedAs(it, b) ==
    IF InvalidBody(b)
    THEN it.detail = NULL /\ it.error = Some(InvalidDetailSchema)
    ELSE /\ it.error = NULL
         /\ it.detail # NULL
         /\ Val(it.detail).title = b.title.val
         /\ Val(it.detail).content = ZeroOr(b.content)
         /\ Val(it.detail).date = ZeroOr(b.date)
         /\ Val(it.detail).partner =
                IF b.partner.type = "object"
                THEN [name |-> ZeroOr(b.partner.name), url |-> ZeroOr(b.partner.url)]
                ELSE [name |-> <<>>, url |-> <<>>]

Pick(t, K) ==
    [j \in 1..Cardinality(K) |->
        t[CHOOSE k \in K : Cardinality({m \in K : m < k}) = j - 1]]

\* t with every carriage return that a newline follows taken out.
LineEndingsNormalized(t) ==
    Pick(t, {k \in 1..Len(t) : ~(t[k] = "\r" /\ k < Len(t) /\ t[k + 1] = "\n")})

\* The position k of n lies in a run of two or more newlines.
InBreak(n, k) ==
    /\ n[k] = "\n"
    /\ \/ k > 1 /\ n[k - 1] = "\n"
       \/ k < Len(n) /\ n[k + 1] = "\n"

\* The piece of n that starts at a: up to the next run or the end of n.
PieceAt(n, a) ==
    SubSeq(n, a, CHOOSE b \in a..Len(n) :
                    /\ \A k \in a..b : ~InBreak(n, k)
                    /\ b = Len(n) \/ InBreak(n, b + 1))

\* p from its first to its last character that is not whitespace.
Trimmed(p) ==
    LET inked == {k \in 1..Len(p) : p[k] \notin Whitespace}
    IN  IF inked = {} THEN <<>>
        ELSE SubSeq(p, CHOOSE k \in inked : \A m \in inked : k <= m,
                       CHOOSE k \in inked : \A m \in inked : k >= m)

\* Where the pieces of n that are not blank start.
ParagraphStarts(n) ==
    {a \in 1..Len(n) : /\ ~InBreak(n, a)
                       /\ a = 1 \/ InBreak(n, a - 1)
                       /\ Trimmed(PieceAt(n, a)) # <<>>}

\* The claimed paragraphs of the text t.
ClaimedParagraphs(t) ==
    LET n      == LineEndingsNormalized(t)
        starts == ParagraphStarts(n)
    IN  IF starts = {} THEN <<Trimmed(n)>>
        ELSE [j \in 1..Cardinality(starts) |->
                 Trimmed(PieceAt(n, CHOOSE a \in starts :
                                       Cardinality({m \in starts : m < a}) = j - 1))]

\* C27: the content a submit sends, as a create or as an update, is the
\* trimmed non-blank pieces between the runs of two or more newlines of the
\* text with its line endings normalized, in the order of the text, and the
\* trimmed whole text as the one paragraph when no piece is left.
C27_PayloadIsParagraphs ==
    [][(Len(tasks') = Len(tasks) + 1 /\ tasks'[Len(tasks')].kind = "submit") =>
          /\ tasks'[Len(tasks')].req.op \in {"create", "update"}
          /\ tasks'[Len(tasks')].req.payload.content = ClaimedParagraphs(form.content)]_vars

\* An update in flight carries two paragraphs of a text typed with a carriage
\* return and a newline in it.
C27_Witness ==
    \E i \in 1..Len(tasks) :
        /\ tasks[i].kind = "submit"
        /\ tasks[i].pc = "mutate"
        /\ tasks[i].req.op = "update"
        /\ Len(tasks[i].req.payload.content) = 2
        /\ \E k \in 1..(Len(form.content) - 1) :
              form.content[k] = "\r" /\ form.content[k + 1] = "\n"

\* The submit flows of ts.
SubmitsOf(ts) == {i \in 1..Len(ts) : ts[i].kind = "submit"}

\* C28: creating is set only by a submit whose required fields are filled and
\* whose partner URL parsed, which issues the one create or update request;
\* while it is set there is exactly one submit flow and no other can start; a
\* submit that fails a validation leaves it clear, a rejected request and the
\* end of the reload clear it, and it is always eventually clear.
C28_SubmittingLifecycle ==
    /\ [](Cardinality(SubmitsOf(tasks)) = IF creating THEN 1 ELSE 0)
    /\ [][(creating' /\ ~creating) =>
             /\ ~missingRequired(form)
             /\ SubmitsOf(tasks') = {Len(tasks')}
             /\ tasks'[Len(tasks')].pc = "mutate"]_vars
    /\ [][creating => SubmitsOf(tasks') \subseteq {i \in 1..Len(tasks') :
                          \E j \in SubmitsOf(tasks) : tasks'[i].req = tasks[j].req}]_vars
    /\ [][formError' \in ValidationMessages /\ formError' # formError => ~creating']_vars
    /\ [][\A i \in SubmitsOf(tasks) : Ends(i) => ~creating']_vars
    /\ creating ~> ~creating

\* The update request succeeded and the submit is in its reload, creating
\* still set.
C28_Witness ==
    /\ creating
    /\ \E i \in 1..Len(tasks) :
          /\ tasks[i].kind = "submit"
          /\ tasks[i].req.op = "update"
          /\ tasks[i].pc = "details"

\* C29: a submit made while the edit target is set issues an update of the
\* edit target's file, never a create.
C29_EditSubmitUpdates ==
    [][(/\ editId # NULL
        /\ Len(tasks') = Len(tasks) + 1
        /\ tasks'[Len(tasks')].kind = "submit") =>
           /\ tasks'[Len(tasks')].req.op = "update"
           /\ tasks'[Len(tasks')].req.filename = Val(editId)]_vars

\* The form Edit loads for the item it.
EditFormOf(it) ==
    LET d == Val(it.detail)
    IN  [title |-> d.title, content |-> d.content, date |-> d.date,
         partnerName |-> d.partner.name, partnerUrl |-> d.partner.url]

\* C30: while the form is closed the edit target is unset and every field is
\* empty, and a step that opens it is an Edit, which loads the target and the
\* fields of an item of the page, or shows no target and empty fields.
C30_ClosedFormIsClean ==
    /\ [](mounted /\ ~addOpen => editId = NULL /\ form = EmptyForm)
    /\ [][(~addOpen /\ addOpen') =>
             \/ editId' = NULL /\ form' = EmptyForm
             \/ \E it \in Range(paged) :
                   /\ it.detail # NULL
                   /\ editId' = Some(lastPathSegment(it.pathname))
                   /\ form' = EditFormOf(it)]_vars

\* The form is closed and clean after an update of the first project with the
\* values typed went through and its reload ended.
C30_Witness ==
    /\ mounted
    /\ ~addOpen
    /\ editId = NULL
    /\ form = EmptyForm
    /\ ~creating
    /\ \E j \in 1..Len(projects) :
          /\ projects[j].filename = FileA
          /\ projects[j].detail.title = FilledForm.title

====
